---- MODULE Spec2Model ----
(***************************************************************************)
(* Traindle: the daily station selector (lib/getDailyStation.ts) and the   *)
(* guess evaluator (lib/evaluateGuess.ts) as a state machine.              *)
(*                                                                         *)
(* Spec       the wall clock advances over consecutive UTC days and        *)
(*            players in any timezone call getDailyStationIndex().         *)
(* SpecCalls  getDailyStationIndex / getDailyStation, with and without a   *)
(*            seed, on station lists of every length.                      *)
(* SpecEval   evaluateGuess and categoriesMatch applied to station pairs.  *)
(* SpecData   the same on records with an unlisted region or band.         *)
(* SpecFrame  selector and evaluator calls on the records of one list.     *)
(* SpecPage   the game page (app/page.tsx) with its guesses cookie, over   *)
(*            page loads, guesses and day changes.                         *)
(* SpecSix    the six-guess page.                                          *)
(* SpecAcross a seedless call that runs while the clock moves on.          *)
(* SpecInput  the page with its search box (StationInput).                 *)
(* SpecEasy   the page with the search box and easy mode, over day changes.*)
(* SpecRender the page with handler calls and renders as separate steps.   *)
(***************************************************************************)
EXTENDS Integers, Sequences, FiniteSets, TLC

VARIABLES
  stations,   \* the module-level station list (public/stations.json)
  now,        \* the wall clock, in ticks since 00:00 UTC of EpochDate
  rngTable,   \* what seedrandom(seed)() yields for each seed string, as k of k/RngRes
  shown,      \* UTC day number -> what the first seedless call on that day returned
  ret,        \* the call of getDailyStationIndex / getDailyStation answered at this instant;
              \* repeat: an earlier seedless call was answered the same UTC day
  guess,      \* first argument of evaluateGuess / categoriesMatch
  mystery,    \* second argument of evaluateGuess / categoriesMatch
  result,     \* the last outcome of evaluateGuess / categoriesMatch on (guess, mystery)
  guesses,    \* the page's guess history: useState<GuessEntry[]>([])
  mounted,    \* the page has loaded and its effects are live
  cookie,     \* the browser's traindle_guesses cookie
  tzOffset,   \* the browser's timezone: local time is UTC plus this many ticks
  closure,    \* the `guesses` that the handlers of the last render closed over
  suggestions,      \* StationInput's dropdown: useState<Station[]>([])
  easyMode,         \* the page's easy-mode switch: useState(false)
  easyModeConfirm,  \* the Easy button has been clicked once and asks "Sure?"
  easyCookie        \* the browser's traindle_easymode cookie

vars ==
  <<stations, now, rngTable, shown, ret, guess, mystery, result,
    guesses, mounted, cookie, tzOffset,
    closure, suggestions, easyMode, easyModeConfirm, easyCookie>>

easyVars == <<easyMode, easyModeConfirm, easyCookie>>

pageVars ==
  <<guesses, mounted, cookie, tzOffset, closure, suggestions,
    easyMode, easyModeConfirm, easyCookie>>

----------------------------------------------------------------------------
(* Bounds of the model *)

MaxDay == 2          \* the clock runs over the UTC days 0 .. MaxDay
MaxStations == 3     \* station lists of 0 .. MaxStations records
RngRes == 3          \* seedrandom's output is one of 0/RngRes .. (RngRes-1)/RngRes
MaxPlatforms == 6    \* platform counts 1 .. MaxPlatforms
TicksPerDay == 2     \* clock resolution: a UTC day has this many ticks
MaxHistory == 3      \* guesses made on the uncapped page, per session

(* Program constants *)

MaxAttempts == 10    \* candidate seeds tried per day: attempt < 10
MAX_GUESSES == 6     \* guesses allowed by the six-guess page
NoSeed == <<>>                      \* the omitted optional argument seed?: string
Undefined == [undefined |-> TRUE]   \* JavaScript's undefined
TypeError == [throw |-> "TypeError"]

\* An optional string argument that is given: <<s>>.
Seed(s) == <<s>>

----------------------------------------------------------------------------
(* Station data: types.ts *)

Region ==
  {"Scotland", "Northern Ireland", "Wales", "North West", "North East",
   "Yorkshire", "East Midlands", "West Midlands", "East of England",
   "London", "South East", "South West"}

StationType == {"terminus", "through", "interchange"}

FOOTFALL_ORDER ==
  <<"<10k", "10k-100k", "100k-500k", "500k-1m", "1m-5m", "5m-10m", "10m+">>

FootfallBand == {FOOTFALL_ORDER[i] : i \in 1..Len(FOOTFALL_ORDER)}

\* Operator names, listed in the order String comparison (Array.prototype.sort) gives them.
OperatorNames == <<"Avanti West Coast", "Northern", "TransPennine Express">>

Operator == {OperatorNames[i] : i \in 1..Len(OperatorNames)}

OpRank(op) == CHOOSE i \in 1..Len(OperatorNames) : OperatorNames[i] = op

Range(s) == {s[i] : i \in 1..Len(s)}

\* Non-empty operator lists without repeats, in any order: assignOperators
\* never returns an empty list, and the station data names each operator that
\* calls at a station once.
OperatorLists ==
  {ops \in UNION {[1..n -> Operator] : n \in 1..Len(OperatorNames)} :
     Cardinality(Range(ops)) = Len(ops)}

Station(nm, code, ops, reg, plat, band, type) ==
  [name |-> nm, crs |-> code, operators |-> ops, region |-> reg,
   platforms |-> plat, footfallBand |-> band, stationType |-> type]

MAN == Station("Manchester Piccadilly", "MAN", <<"Avanti West Coast", "Northern">>,
               "North West", 6, "10m+", "interchange")
\* same categories as MAN, operators listed in the other order
MCV == Station("Manchester Victoria", "MCV", <<"Northern", "Avanti West Coast">>,
               "North West", 6, "10m+", "interchange")
NCL == Station("Newcastle", "NCL", <<"Northern", "TransPennine Express">>,
               "North East", 4, "5m-10m", "through")
PNZ == Station("Penzance", "PNZ", <<"Northern">>,
               "South West", 4, "500k-1m", "terminus")

AllStations == <<MAN, NCL, PNZ, MCV>>

\* The station lists a build may ship: the empty list and lists of up to MaxStations records.
StationLists ==
  {SubSeq(AllStations, 1, n) : n \in 0..MaxStations} \cup {<<MAN, MCV, NCL>>}

----------------------------------------------------------------------------
(* The wall clock and the Date object: getDailyStation.ts 8-15 *)

EpochDate == [y |-> 2023, m |-> 12, d |-> 30]   \* UTC date of day number 0

TzOffsets == {-1, 0, 1}   \* a caller's local time is UTC plus this many ticks

IsLeapYear(y) == (y % 4 = 0 /\ y % 100 # 0) \/ y % 400 = 0

DaysInMonth(y, m) ==
  IF m = 2 THEN (IF IsLeapYear(y) THEN 29 ELSE 28)
  ELSE IF m \in {4, 6, 9, 11} THEN 30 ELSE 31

NextDate(dt) ==
  IF dt.d < DaysInMonth(dt.y, dt.m) THEN [dt EXCEPT !.d = dt.d + 1]
  ELSE IF dt.m < 12 THEN [y |-> dt.y, m |-> dt.m + 1, d |-> 1]
  ELSE [y |-> dt.y + 1, m |-> 1, d |-> 1]

PrevDate(dt) ==
  IF dt.d > 1 THEN [dt EXCEPT !.d = dt.d - 1]
  ELSE IF dt.m > 1 THEN [y |-> dt.y, m |-> dt.m - 1, d |-> DaysInMonth(dt.y, dt.m - 1)]
  ELSE [y |-> dt.y - 1, m |-> 12, d |-> 31]

RECURSIVE AddDays(_, _)
\* Date arithmetic with carry into month and year, as setUTCDate normalises it.
AddDays(dt, n) ==
  IF n = 0 THEN dt
  ELSE IF n > 0 THEN AddDays(NextDate(dt), n - 1)
  ELSE AddDays(PrevDate(dt), n + 1)

\* new Date() read at tick t by a caller whose timezone offset is tz
NewDate(t, tz) == [time |-> t, tzOffset |-> tz]

UTCDay(t) == t \div TicksPerDay

\* Variant: the date advances with every tick of the clock, not once a day.
UTCFieldsPerTick(date) == AddDays(EpochDate, date.time)

\* getUTCFullYear / getUTCMonth + 1 / getUTCDate
UTCFields(date) == AddDays(EpochDate, date.time \div TicksPerDay)

\* getFullYear / getMonth + 1 / getDate
LocalFields(date) == AddDays(EpochDate, (date.time + date.tzOffset) \div TicksPerDay)

\* String(n).padStart(2, '0')
PadStart2(n) == IF n < 10 THEN "0" \o ToString(n) ELSE ToString(n)

\* `${y}-${m}-${d}`
FormatDate(f) == ToString(f.y) \o "-" \o PadStart2(f.m) \o "-" \o PadStart2(f.d)

\* Variant: the date fields read in the caller's local time (getFullYear, getMonth, getDate).
dateSeedDaysAgoLocal(n, date) == FormatDate(AddDays(LocalFields(date), -n))

dateSeedDaysAgo(n, date) == FormatDate(AddDays(UTCFields(date), -n))

todaySeed(date) == dateSeedDaysAgo(0, date)

\* attempt === 0 ? base : `${base}-${attempt}`
TrySeed(base, attempt) ==
  IF attempt = 0 THEN base ELSE base \o "-" \o ToString(attempt)

----------------------------------------------------------------------------
(* seedrandom and indexForSeed: getDailyStation.ts 21-24 *)

DateOfDay(day) == FormatDate(AddDays(EpochDate, day))

\* The ten candidate seeds of one date.
RowSeeds(dateStr) == {TrySeed(dateStr, a) : a \in 0..(MaxAttempts - 1)}

RngValues == 0..(RngRes - 1)

\* seedrandom is a fixed but arbitrary function of the seed string.  The
\* functions explored give the plain date seed the output `first` and every
\* suffixed seed of that date the output `shift` steps further on, so that a
\* retry yields the same station (shift 0) or another one.
RngRow(dateStr, first, shift) ==
  [s \in RowSeeds(dateStr) |-> IF s = dateStr THEN first ELSE (first + shift) % RngRes]

\* seedrandom(seed)(): the first output of the generator seeded with `seed`,
\* a fixed function of the seed string; 0 for the seeds the table does not hold.
Rng(seed) == IF seed \in DOMAIN rngTable THEN rngTable[seed] ELSE 0

\* Variant: Math.round(rng() * stations.length)
indexForSeedRound(seed) == (2 * Rng(seed) * Len(stations) + RngRes) \div (2 * RngRes)

\* Math.floor(rng() * stations.length)
indexForSeed(seed) == (Rng(seed) * Len(stations)) \div RngRes

\* stations[idx]
StationAt(idx) == IF idx \in 0..(Len(stations) - 1) THEN stations[idx + 1] ELSE Undefined

----------------------------------------------------------------------------
(* categoriesMatch: getDailyStation.ts 26-35 *)

RECURSIVE InsertSorted(_, _)
InsertSorted(op, sorted) ==
  IF sorted = <<>> THEN <<op>>
  ELSE IF OpRank(op) <= OpRank(Head(sorted)) THEN <<op>> \o sorted
  ELSE <<Head(sorted)>> \o InsertSorted(op, Tail(sorted))

RECURSIVE SortOperators(_)
\* [...operators].sort()
SortOperators(ops) ==
  IF ops = <<>> THEN <<>> ELSE InsertSorted(Head(ops), SortOperators(Tail(ops)))

\* Variant: the operator lists compared in the order they are listed, unsorted.
categoriesMatchUnsorted(a, b) ==
  /\ a.region = b.region
  /\ a.platforms = b.platforms
  /\ a.footfallBand = b.footfallBand
  /\ a.stationType = b.stationType
  /\ Len(a.operators) = Len(b.operators)
  /\ \A i \in 1..Len(a.operators) : a.operators[i] = b.operators[i]

categoriesMatch(a, b) ==
  /\ a.region = b.region
  /\ a.platforms = b.platforms
  /\ a.footfallBand = b.footfallBand
  /\ a.stationType = b.stationType
  /\ Len(a.operators) = Len(b.operators)
  /\ \A i \in 1..Len(a.operators) :
       SortOperators(a.operators)[i] = SortOperators(b.operators)[i]

\* Reading a.region or b.region of undefined throws a TypeError.
categoriesMatchThrows(a, b) == a = Undefined \/ b = Undefined

\* The call gets as far as the two sort() statements: lines 27-32 did not return.
sortReached(a, b) ==
  /\ a.region = b.region
  /\ a.platforms = b.platforms
  /\ a.footfallBand = b.footfallBand
  /\ a.stationType = b.stationType
  /\ Len(a.operators) = Len(b.operators)

\* Variant: a.operators.sort(), which sorts the station's own array in place.
operatorsAfterSortInPlace(ops) == SortOperators(ops)

\* The array x.operators after `[...x.operators].sort()`: the spread makes a
\* copy, sort() reorders the copy.
operatorsAfterSort(ops) == ops

\* The station record x after categoriesMatch(a, b) has run, x being a or b.
stationAfterMatch(x, a, b) ==
  IF sortReached(a, b) THEN [x EXCEPT !.operators = operatorsAfterSort(@)] ELSE x

----------------------------------------------------------------------------
(* resolveStationForDate: getDailyStation.ts 39-48 *)

RECURSIVE resolveAttempts(_, _, _)
resolveAttempts(dateStr, prevStation, attempt) ==
  IF attempt >= MaxAttempts THEN StationAt(indexForSeed(dateStr))
  ELSE LET idx == indexForSeed(TrySeed(dateStr, attempt))
       IN  IF categoriesMatchThrows(StationAt(idx), prevStation) THEN TypeError
           ELSE IF ~categoriesMatch(StationAt(idx), prevStation) THEN StationAt(idx)
           ELSE resolveAttempts(dateStr, prevStation, attempt + 1)

resolveStationForDate(dateStr, prevStation) ==
  IF prevStation = TypeError THEN TypeError
  ELSE resolveAttempts(dateStr, prevStation, 0)

----------------------------------------------------------------------------
(* getDailyStationIndex, getDailyStation: getDailyStation.ts 50-82 *)

Return(v) == [value |-> v]

RECURSIVE dailyAttemptsYesterdayOnly(_, _, _, _)
\* Variant: a candidate is accepted as soon as it differs from yesterday's station.
dailyAttemptsYesterdayOnly(base, yesterdayStation, twoDaysAgoStation, attempt) ==
  IF attempt >= MaxAttempts THEN Return(indexForSeed(base))
  ELSE LET idx == indexForSeed(TrySeed(base, attempt))
       IN  IF categoriesMatchThrows(StationAt(idx), yesterdayStation) THEN TypeError
           ELSE IF ~categoriesMatch(StationAt(idx), yesterdayStation)
                THEN Return(idx)
           ELSE dailyAttemptsYesterdayOnly(base, yesterdayStation, twoDaysAgoStation,
                                           attempt + 1)

RECURSIVE dailyAttemptsFallbackLast(_, _, _, _)
\* Variant: when every attempt collides, the last candidate is returned.
dailyAttemptsFallbackLast(base, yesterdayStation, twoDaysAgoStation, attempt) ==
  IF attempt >= MaxAttempts
  THEN Return(indexForSeed(TrySeed(base, MaxAttempts - 1)))
  ELSE LET idx == indexForSeed(TrySeed(base, attempt))
       IN  IF categoriesMatchThrows(StationAt(idx), yesterdayStation) THEN TypeError
           ELSE IF /\ ~categoriesMatch(StationAt(idx), yesterdayStation)
                   /\ ~categoriesMatch(StationAt(idx), twoDaysAgoStation)
                THEN Return(idx)
           ELSE dailyAttemptsFallbackLast(base, yesterdayStation, twoDaysAgoStation,
                                          attempt + 1)

RECURSIVE dailyAttempts(_, _, _, _)
dailyAttempts(base, yesterdayStation, twoDaysAgoStation, attempt) ==
  IF attempt >= MaxAttempts THEN Return(indexForSeed(base))
  ELSE LET idx == indexForSeed(TrySeed(base, attempt))
       IN  IF categoriesMatchThrows(StationAt(idx), yesterdayStation) THEN TypeError
           ELSE IF /\ ~categoriesMatch(StationAt(idx), yesterdayStation)
                   /\ ~categoriesMatch(StationAt(idx), twoDaysAgoStation)
                THEN Return(idx)
           ELSE dailyAttempts(base, yesterdayStation, twoDaysAgoStation, attempt + 1)

\* `reads` are the four Date objects the call obtains from new Date(), in the
\* order the code obtains them: todaySeed(), dateSeedDaysAgo(3), (2), (1).
threeDaysAgoStation(reads) == StationAt(indexForSeed(dateSeedDaysAgo(3, reads[2])))

twoDaysAgoStation(reads) ==
  resolveStationForDate(dateSeedDaysAgo(2, reads[3]), threeDaysAgoStation(reads))

yesterdayStation(reads) ==
  resolveStationForDate(dateSeedDaysAgo(1, reads[4]), twoDaysAgoStation(reads))

\* Variant: no early return for a custom seed; the seed is only used as today's base.
getDailyStationIndexAlwaysAvoids(seed, reads) ==
  IF twoDaysAgoStation(reads) = TypeError \/ yesterdayStation(reads) = TypeError
  THEN TypeError
  ELSE dailyAttempts(IF seed # NoSeed THEN seed[1] ELSE todaySeed(reads[1]),
                     yesterdayStation(reads), twoDaysAgoStation(reads), 0)

getDailyStationIndex(seed, reads) ==
  IF seed # NoSeed THEN Return(indexForSeed(seed[1]))
  ELSE LET twoDaysAgo == twoDaysAgoStation(reads)
           yesterday == resolveStationForDate(dateSeedDaysAgo(1, reads[4]), twoDaysAgo)
       IN  IF twoDaysAgo = TypeError \/ yesterday = TypeError THEN TypeError
           ELSE dailyAttempts(todaySeed(reads[1]), yesterday, twoDaysAgo, 0)

getDailyStation(seed, reads) ==
  LET i == getDailyStationIndex(seed, reads)
  IN  IF i = TypeError THEN TypeError ELSE Return(StationAt(i.value))

\* A call that runs within one instant: all four reads see the same clock.
ReadsAt(t, tz) == [k \in 1..4 |-> NewDate(t, tz)]

RECURSIVE resolveCompared(_, _, _)
\* The argument pairs of the categoriesMatch calls resolveStationForDate makes.
resolveCompared(dateStr, prevStation, attempt) ==
  IF attempt >= MaxAttempts \/ prevStation = TypeError THEN {}
  ELSE LET st == StationAt(indexForSeed(TrySeed(dateStr, attempt)))
       IN  IF categoriesMatchThrows(st, prevStation) THEN {}
           ELSE {<<st, prevStation>>}
                  \cup (IF categoriesMatch(st, prevStation)
                        THEN resolveCompared(dateStr, prevStation, attempt + 1) ELSE {})

RECURSIVE dailyCompared(_, _, _, _)
\* The argument pairs of the categoriesMatch calls of the loop of lines 65-74;
\* && does not evaluate its right operand when the left one is false.
dailyCompared(base, yesterdayStation_, twoDaysAgoStation_, attempt) ==
  IF \/ attempt >= MaxAttempts
     \/ yesterdayStation_ = TypeError
     \/ twoDaysAgoStation_ = TypeError
  THEN {}
  ELSE LET st == StationAt(indexForSeed(TrySeed(base, attempt)))
           rest == dailyCompared(base, yesterdayStation_, twoDaysAgoStation_, attempt + 1)
       IN  IF categoriesMatchThrows(st, yesterdayStation_) THEN {}
           ELSE IF categoriesMatch(st, yesterdayStation_)
                THEN {<<st, yesterdayStation_>>} \cup rest
           ELSE IF categoriesMatchThrows(st, twoDaysAgoStation_)
                THEN {<<st, yesterdayStation_>>}
           ELSE {<<st, yesterdayStation_>>, <<st, twoDaysAgoStation_>>}
                  \cup (IF categoriesMatch(st, twoDaysAgoStation_) THEN rest ELSE {})

\* Every pair of stations a call of getDailyStationIndex hands to categoriesMatch.
\* With an explicit seed there is none; on an empty list the first call throws.
comparedPairs(seed, reads) ==
  IF seed # NoSeed \/ Len(stations) = 0 THEN {}
  ELSE LET twoDaysAgo == twoDaysAgoStation(reads)
           yesterday == resolveStationForDate(dateSeedDaysAgo(1, reads[4]), twoDaysAgo)
       IN  resolveCompared(dateSeedDaysAgo(2, reads[3]), threeDaysAgoStation(reads), 0)
             \cup resolveCompared(dateSeedDaysAgo(1, reads[4]), twoDaysAgo, 0)
             \cup dailyCompared(todaySeed(reads[1]), yesterday, twoDaysAgo, 0)

\* The records of the list are the objects the calls compare: what a call does
\* to an operators array it does to the array in the list.
stationsAfter(pairs) ==
  [i \in 1..Len(stations) |->
     IF \E pr \in pairs : stations[i].crs \in {pr[1].crs, pr[2].crs} /\ sortReached(pr[1], pr[2])
     THEN [stations[i] EXCEPT !.operators = operatorsAfterSort(@)]
     ELSE stations[i]]

----------------------------------------------------------------------------
(* REGION_ADJACENCY: regionAdjacency.ts 3-16 *)

REGION_ADJACENCY ==
  [r \in Region |->
     CASE r = "Scotland" -> <<"North East", "North West", "Northern Ireland">>
       [] r = "Northern Ireland" -> <<"Scotland", "Wales">>
       [] r = "Wales" -> <<"Northern Ireland", "North West", "West Midlands", "South West">>
       [] r = "North West" -> <<"Scotland", "Wales", "North East", "Yorkshire",
                                "East Midlands", "West Midlands">>
       [] r = "North East" -> <<"Scotland", "North West", "Yorkshire">>
       [] r = "Yorkshire" -> <<"North West", "North East", "East Midlands", "East of England">>
       [] r = "East Midlands" -> <<"North West", "Yorkshire", "West Midlands",
                                   "East of England", "London">>
       [] r = "West Midlands" -> <<"Wales", "North West", "East Midlands",
                                   "South West", "South East">>
       [] r = "East of England" -> <<"Yorkshire", "East Midlands", "London">>
       [] r = "London" -> <<"East Midlands", "West Midlands", "East of England",
                            "South East", "South West">>
       [] r = "South East" -> <<"West Midlands", "London", "South West">>
       [] r = "South West" -> <<"Wales", "West Midlands", "London", "South East">>]

(* REGION_CENTROIDS, in tenths of a degree <<lat, lon>> *)

REGION_CENTROIDS ==
  [r \in Region |->
     CASE r = "Scotland" -> <<565, -42>>
       [] r = "Northern Ireland" -> <<546, -67>>
       [] r = "Wales" -> <<523, -37>>
       [] r = "North West" -> <<539, -26>>
       [] r = "North East" -> <<549, -17>>
       [] r = "Yorkshire" -> <<539, -15>>
       [] r = "East Midlands" -> <<528, -10>>
       [] r = "West Midlands" -> <<525, -19>>
       [] r = "East of England" -> <<522, 5>>
       [] r = "London" -> <<515, -1>>
       [] r = "South East" -> <<512, 5>>
       [] r = "South West" -> <<510, -30>>]

Abs(n) == IF n < 0 THEN -n ELSE n

\* Variant: four 90-degree bins; the direction lies less than 45 degrees off the axis.
Within45(across, along) == along > 0 /\ Abs(across) < along

\* The direction (across, along) lies less than 22.5 degrees off the positive
\* `along` axis: across < tan(22.5) * along, and tan(22.5) = sqrt(2) - 1.
Within22(across, along) ==
  along > 0 /\ (Abs(across) + along) * (Abs(across) + along) < 2 * along * along

\* The bin that deg = atan2(dlon, dlat) * 180 / PI falls in.  No pair of
\* integers lies on a bin boundary, tan(22.5) being irrational.
Octant(dlon, dlat) ==
  IF dlon = 0 /\ dlat = 0 THEN "N"
  ELSE IF Within22(dlon, dlat) THEN "N"
  ELSE IF dlon > 0 /\ dlat > 0 /\ ~Within22(dlat, dlon) THEN "NE"
  ELSE IF Within22(dlat, dlon) THEN "E"
  ELSE IF dlon > 0 /\ dlat < 0 /\ ~Within22(dlon, -dlat) THEN "SE"
  ELSE IF Within22(dlon, -dlat) THEN "S"
  ELSE IF dlon < 0 /\ dlat < 0 /\ ~Within22(dlat, -dlon) THEN "SW"
  ELSE IF Within22(dlat, -dlon) THEN "W"
  ELSE "NW"

\* array.includes(x)
Includes(array, x) == \E i \in 1..Len(array) : array[i] = x

\* const [fromLat, fromLon] = REGION_CENTROIDS[from] (and the same for `to`):
\* destructuring undefined throws a TypeError.
directionBetweenThrows(from, to) ==
  from \notin DOMAIN REGION_CENTROIDS \/ to \notin DOMAIN REGION_CENTROIDS

\* Variant: close when either region lists the other.
directionBetweenEitherWay(from, to) ==
  LET dlat == REGION_CENTROIDS[to][1] - REGION_CENTROIDS[from][1]
      dlon == REGION_CENTROIDS[to][2] - REGION_CENTROIDS[from][2]
      dir == Octant(dlon, dlat)
      proximity == IF \/ Includes(REGION_ADJACENCY[from], to)
                      \/ Includes(REGION_ADJACENCY[to], from)
                   THEN "close" ELSE "far"
  IN  proximity \o "-" \o dir

\* Variant: the adjacency list of the mystery's region searched for the guess's region.
directionBetweenReversed(from, to) ==
  LET dlat == REGION_CENTROIDS[to][1] - REGION_CENTROIDS[from][1]
      dlon == REGION_CENTROIDS[to][2] - REGION_CENTROIDS[from][2]
      dir == Octant(dlon, dlat)
      proximity == IF to \in DOMAIN REGION_ADJACENCY /\ Includes(REGION_ADJACENCY[to], from)
                   THEN "close" ELSE "far"
  IN  proximity \o "-" \o dir

directionBetween(from, to) ==
  LET dlat == REGION_CENTROIDS[to][1] - REGION_CENTROIDS[from][1]
      dlon == REGION_CENTROIDS[to][2] - REGION_CENTROIDS[from][2]
      dir == Octant(dlon, dlat)
      proximity == IF from \in DOMAIN REGION_ADJACENCY /\ Includes(REGION_ADJACENCY[from], to)
                   THEN "close" ELSE "far"
  IN  proximity \o "-" \o dir

----------------------------------------------------------------------------
(* evaluateGuess *)

\* array.indexOf(x), zero-based, -1 when absent
IndexOf(array, x) ==
  IF Includes(array, x) THEN (CHOOSE i \in 1..Len(array) : array[i] = x) - 1 ELSE -1

\* Variant: 'correct' as soon as every operator of the mystery is matched,
\* without comparing the sizes of the two sets.
evaluateOperatorNoSizeCheck(guess_, mystery_) ==
  LET guessSet == Range(guess_.operators)
      mysterySet == Range(mystery_.operators)
      matches == Cardinality({i \in 1..Len(mystery_.operators) :
                                mystery_.operators[i] \in guessSet})
  IN  IF matches = 0 THEN "wrong"
      ELSE IF matches = Cardinality(mysterySet) THEN "correct"
      ELSE "partial"

evaluateOperator(guess_, mystery_) ==
  LET guessSet == Range(guess_.operators)
      mysterySet == Range(mystery_.operators)
      matches == Cardinality({i \in 1..Len(mystery_.operators) :
                                mystery_.operators[i] \in guessSet})
  IN  IF matches = 0 THEN "wrong"
      ELSE IF matches = Cardinality(mysterySet)
              /\ Cardinality(guessSet) = Cardinality(mysterySet) THEN "correct"
      ELSE "partial"

evaluateRegion(guess_, mystery_) ==
  IF guess_.region = mystery_.region THEN "correct"
  ELSE directionBetween(guess_.region, mystery_.region)

\* Variant: no branch for platDiff === 0; the close-higher range starts at 0.
evaluatePlatformsNoZero(guess_, mystery_) ==
  LET platDiff == mystery_.platforms - guess_.platforms
  IN  IF platDiff >= 0 /\ platDiff <= 2 THEN "close-higher"
      ELSE IF platDiff <= -1 /\ platDiff >= -2 THEN "close-lower"
      ELSE IF platDiff > 2 THEN "far-higher"
      ELSE "far-lower"

\* Variant: the close range reaches three platforms either way.
evaluatePlatformsCloseWithin3(guess_, mystery_) ==
  LET platDiff == mystery_.platforms - guess_.platforms
  IN  IF platDiff = 0 THEN "correct"
      ELSE IF platDiff >= 1 /\ platDiff <= 3 THEN "close-higher"
      ELSE IF platDiff <= -1 /\ platDiff >= -3 THEN "close-lower"
      ELSE IF platDiff > 3 THEN "far-higher"
      ELSE "far-lower"

evaluatePlatforms(guess_, mystery_) ==
  LET platDiff == mystery_.platforms - guess_.platforms
  IN  IF platDiff = 0 THEN "correct"
      ELSE IF platDiff >= 1 /\ platDiff <= 2 THEN "close-higher"
      ELSE IF platDiff <= -1 /\ platDiff >= -2 THEN "close-lower"
      ELSE IF platDiff > 2 THEN "far-higher"
      ELSE "far-lower"

\* Variant: the difference taken the other way round, guessIdx - mystIdx.
evaluateFootfallBandReversed(guess_, mystery_) ==
  LET guessIdx == IndexOf(FOOTFALL_ORDER, guess_.footfallBand)
      mystIdx == IndexOf(FOOTFALL_ORDER, mystery_.footfallBand)
      diff == guessIdx - mystIdx
  IN  IF diff = 0 THEN "correct"
      ELSE IF diff = 1 THEN "close-higher"
      ELSE IF diff = -1 THEN "close-lower"
      ELSE IF diff > 1 THEN "far-higher"
      ELSE "far-lower"

\* Variant: no branch for diff === -1; one band lower falls through to 'far-lower'.
evaluateFootfallBandNoCloseLower(guess_, mystery_) ==
  LET guessIdx == IndexOf(FOOTFALL_ORDER, guess_.footfallBand)
      mystIdx == IndexOf(FOOTFALL_ORDER, mystery_.footfallBand)
      diff == mystIdx - guessIdx
  IN  IF diff = 0 THEN "correct"
      ELSE IF diff = 1 THEN "close-higher"
      ELSE IF diff > 1 THEN "far-higher"
      ELSE "far-lower"

evaluateFootfallBand(guess_, mystery_) ==
  LET guessIdx == IndexOf(FOOTFALL_ORDER, guess_.footfallBand)
      mystIdx == IndexOf(FOOTFALL_ORDER, mystery_.footfallBand)
      diff == mystIdx - guessIdx
  IN  IF diff = 0 THEN "correct"
      ELSE IF diff = 1 THEN "close-higher"
      ELSE IF diff = -1 THEN "close-lower"
      ELSE IF diff > 1 THEN "far-higher"
      ELSE "far-lower"

\* Variant: the station type is not compared.
evaluateStationTypeIgnored(guess_, mystery_) == "correct"

evaluateStationType(guess_, mystery_) ==
  IF guess_.stationType = mystery_.stationType THEN "correct" ELSE "wrong"

evaluateGuess(guess_, mystery_) ==
  IF guess_.region # mystery_.region /\ directionBetweenThrows(guess_.region, mystery_.region)
  THEN TypeError
  ELSE [operator |-> evaluateOperator(guess_, mystery_),
        region |-> evaluateRegion(guess_, mystery_),
        platforms |-> evaluatePlatforms(guess_, mystery_),
        footfallBand |-> evaluateFootfallBand(guess_, mystery_),
        stationType |-> evaluateStationType(guess_, mystery_)]

----------------------------------------------------------------------------
(* The state machine of the daily selector *)

NoCall == [fn |-> "none"]

\* document.cookie holds no traindle_guesses cookie
NoCookie == [absent |-> TRUE]

\* No page is open and the browser holds no cookie.
PageIdle ==
  /\ guesses = <<>>
  /\ mounted = FALSE
  /\ cookie = NoCookie
  /\ tzOffset = 0
  /\ closure = <<>>
  /\ suggestions = <<>>
  /\ easyMode = FALSE
  /\ easyModeConfirm = FALSE
  /\ easyCookie = NoCookie

NoResult == [fn |-> "none"]

\* The UTC days whose candidate seeds a seedless call on `day` feeds to seedrandom.
WindowDays(day) == (day - 3)..day

RECURSIVE RngTable(_, _, _)
\* The table that holds, for each day of `days`, the row of that day's seeds.
RngTable(days, firsts, shift) ==
  IF days = {} THEN <<>>
  ELSE LET d == CHOOSE e \in days : TRUE
       IN  RngRow(DateOfDay(d), firsts[d], shift) @@ RngTable(days \ {d}, firsts, shift)

\* The seedrandom behaviours explored: one value per date and one shift per table.
RngTables(days) ==
  {RngTable(days, firsts, shift) : firsts \in [days -> RngValues], shift \in RngValues}

\* The shift between the plain seed's output and the suffixed seeds' in this table.
RngShift ==
  LET dateStr == DateOfDay(UTCDay(now))
  IN  (rngTable[TrySeed(dateStr, 1)] - rngTable[dateStr]) % RngRes

\* The seeds a caller passes explicitly: today's date string, as a ?reveal=
\* link made today carries it, and a string that is no date.
ExplicitSeeds == {Seed(DateOfDay(UTCDay(now))), Seed("reveal")}

EvalIdle == guess = MAN /\ mystery = MAN /\ result = NoResult

\* Lists on which collision avoidance has work to do: three stations of three
\* classes, and three stations two of which share a class.
RotationLists == {<<MAN, NCL, PNZ>>, <<MAN, MCV, NCL>>}

Init ==
  /\ stations \in RotationLists
  /\ now = 0
  /\ rngTable \in RngTables(WindowDays(0))
  /\ shown = <<>>
  /\ ret = NoCall
  /\ EvalIdle
  /\ PageIdle

\* Time passes.  At UTC midnight the seeds of the new day come into use; what
\* seedrandom yields for them is fixed from then on.
Tick ==
  /\ now + 1 < (MaxDay + 1) * TicksPerDay
  /\ now' = now + 1
  /\ ret' = NoCall
  /\ IF UTCDay(now + 1) = UTCDay(now)
     THEN UNCHANGED <<rngTable, shown>>
     ELSE /\ \E first \in RngValues :
               rngTable' =
                 RngRow(DateOfDay(UTCDay(now + 1)), first, RngShift)
                   @@ [s \in DOMAIN rngTable \ RowSeeds(DateOfDay(UTCDay(now) - 3)) |->
                         rngTable[s]]
          /\ shown' = [d \in {e \in DOMAIN shown : e >= UTCDay(now + 1) - 2} |-> shown[d]]
  /\ UNCHANGED <<stations, guess, mystery, result>>
  /\ UNCHANGED pageVars

\* A player in timezone tz calls getDailyStationIndex() without a seed.
CallDailyIndex(tz) ==
  LET out == getDailyStationIndex(NoSeed, ReadsAt(now, tz))
  IN  /\ ret' = [fn |-> "getDailyStationIndex", seed |-> NoSeed, out |-> out,
                  repeat |-> UTCDay(now) \in DOMAIN shown]
      /\ shown' = IF UTCDay(now) \in DOMAIN shown THEN shown
                  ELSE [d \in DOMAIN shown \cup {UTCDay(now)} |->
                          IF d = UTCDay(now) THEN out ELSE shown[d]]
      /\ stations' = stationsAfter(comparedPairs(NoSeed, ReadsAt(now, tz)))
      /\ UNCHANGED <<now, rngTable, guess, mystery, result>>
      /\ UNCHANGED pageVars

\* getDailyStationIndex(seed) with an explicit seed.
CallSeededIndex(seed, tz) ==
  /\ ret' = [fn |-> "getDailyStationIndex", seed |-> seed,
             out |-> getDailyStationIndex(seed, ReadsAt(now, tz)), repeat |-> FALSE]
  /\ stations' = stationsAfter(comparedPairs(seed, ReadsAt(now, tz)))
  /\ UNCHANGED <<now, rngTable, shown, guess, mystery, result>>
  /\ UNCHANGED pageVars

\* getDailyStation(seed?) with or without a seed.
CallDailyStation(seed, tz) ==
  /\ ret' = [fn |-> "getDailyStation", seed |-> seed,
             out |-> getDailyStation(seed, ReadsAt(now, tz)), repeat |-> FALSE]
  /\ stations' = stationsAfter(comparedPairs(seed, ReadsAt(now, tz)))
  /\ UNCHANGED <<now, rngTable, shown, guess, mystery, result>>
  /\ UNCHANGED pageVars

Next ==
  \/ Tick
  \/ \E tz \in TzOffsets : CallDailyIndex(tz)

Spec == Init /\ [][Next]_vars

----------------------------------------------------------------------------
(* A call during which the clock moves on: getDailyStation.ts 8-19, 56-63 *)

\* The four Date objects of a call that starts at tick t, the last `late` of
\* them obtained after the clock has moved on by one tick.
ReadsAcross(t, tz, late) ==
  [k \in 1..4 |-> NewDate(IF k > 4 - late THEN t + 1 ELSE t, tz)]

\* The seeds the call builds: todaySeed(), dateSeedDaysAgo(3), (2), (1), each
\* from its own new Date().
seedsBuilt(reads) ==
  <<todaySeed(reads[1]), dateSeedDaysAgo(3, reads[2]),
    dateSeedDaysAgo(2, reads[3]), dateSeedDaysAgo(1, reads[4])>>

\* A seedless call of getDailyStationIndex() that is running while the clock
\* moves from one tick to the next (late > 0), or within one tick (late = 0).
CallDailyIndexAcross(late) ==
  LET reads == ReadsAcross(now, 0, late)
  IN  /\ ret' = [fn |-> "getDailyStationIndex", seed |-> NoSeed,
                  out |-> getDailyStationIndex(NoSeed, reads), repeat |-> FALSE,
                  seeds |-> seedsBuilt(reads)]
      /\ stations' = stationsAfter(comparedPairs(NoSeed, reads))
      /\ IF late = 0 THEN UNCHANGED <<now, rngTable, shown>>
         ELSE /\ now + 1 < (MaxDay + 1) * TicksPerDay
              /\ now' = now + 1
              /\ IF UTCDay(now + 1) = UTCDay(now)
                 THEN UNCHANGED <<rngTable, shown>>
                 ELSE /\ \E first \in RngValues :
                           rngTable' =
                             RngRow(DateOfDay(UTCDay(now + 1)), first, RngShift)
                               @@ [s \in DOMAIN rngTable
                                          \ RowSeeds(DateOfDay(UTCDay(now) - 3)) |->
                                     rngTable[s]]
                      /\ shown' = [d \in {e \in DOMAIN shown : e >= UTCDay(now + 1) - 2} |->
                                     shown[d]]
      /\ UNCHANGED <<guess, mystery, result>>
      /\ UNCHANGED pageVars

NextAcross ==
  \/ Tick
  \/ \E late \in 0..4 : CallDailyIndexAcross(late)

SpecAcross == Init /\ [][NextAcross]_vars

----------------------------------------------------------------------------
(* Calls with and without a seed, on the first or the last day of the range *)

InitCalls ==
  /\ stations \in StationLists
  /\ now \in {0, MaxDay * TicksPerDay}
  /\ rngTable \in RngTables(WindowDays(UTCDay(now)))
  /\ shown = <<>>
  /\ ret = NoCall
  /\ EvalIdle
  /\ PageIdle

NextCalls ==
  \/ CallDailyIndex(0)
  \/ \E seed \in ExplicitSeeds : CallSeededIndex(seed, 0)
  \/ \E seed \in ExplicitSeeds \cup {NoSeed} : CallDailyStation(seed, 0)

SpecCalls == InitCalls /\ [][NextCalls]_vars

----------------------------------------------------------------------------
(* The state machine of the evaluator: evaluateGuess and categoriesMatch on pairs *)

\* Station records that differ from MAN in at most one field, and the listed stations.
EvalStations ==
  {[MAN EXCEPT !.operators = ops] : ops \in OperatorLists}
    \cup {[MAN EXCEPT !.region = r] : r \in Region}
    \cup {[MAN EXCEPT !.platforms = n] : n \in 1..MaxPlatforms}
    \cup {[MAN EXCEPT !.footfallBand = b] : b \in FootfallBand}
    \cup {[MAN EXCEPT !.stationType = t] : t \in StationType}
    \cup Range(AllStations)

SelectorIdle ==
  /\ stations = AllStations
  /\ now = 0
  /\ rngTable = <<>>
  /\ shown = <<>>
  /\ ret = NoCall
  /\ PageIdle

InitEval ==
  /\ SelectorIdle
  /\ guess \in EvalStations
  /\ mystery \in EvalStations
  /\ result = NoResult

EvaluateGuess ==
  /\ result' = [fn |-> "evaluateGuess", value |-> evaluateGuess(guess, mystery)]
  /\ UNCHANGED <<stations, now, rngTable, shown, ret, guess, mystery>>
  /\ UNCHANGED pageVars

CategoriesMatch ==
  /\ result' = [fn |-> "categoriesMatch", value |-> categoriesMatch(guess, mystery)]
  /\ guess' = stationAfterMatch(guess, guess, mystery)
  /\ mystery' = stationAfterMatch(mystery, guess, mystery)
  /\ UNCHANGED <<stations, now, rngTable, shown, ret>>
  /\ UNCHANGED pageVars

NextEval == EvaluateGuess \/ CategoriesMatch

SpecEval == InitEval /\ [][NextEval]_vars

----------------------------------------------------------------------------
(* The selector and the evaluator at work on the records of one station list *)

\* The page evaluates a station picked from the list against the day's
\* mystery, itself a record of the list.
InitFrame ==
  /\ stations \in RotationLists
  /\ now = 0
  /\ rngTable \in RngTables(WindowDays(0))
  /\ shown = <<>>
  /\ ret = NoCall
  /\ guess = stations[2]
  /\ mystery = stations[1]
  /\ result = NoResult
  /\ PageIdle

NextFrame ==
  \/ CallDailyIndex(0)
  \/ \E seed \in ExplicitSeeds \cup {NoSeed} : CallDailyStation(seed, 0)
  \/ EvaluateGuess
  \/ CategoriesMatch

SpecFrame == InitFrame /\ [][NextFrame]_vars

----------------------------------------------------------------------------
(* The evaluator on station data that the type declarations do not admit *)

\* Records as a stations.json with a misspelt region or band would supply them:
\* the JSON is cast to Station[] unchecked (getDailyStation.ts 6).
MalformedStations ==
  {[MAN EXCEPT !.region = "Channel Islands"],
   [NCL EXCEPT !.region = "Channel Islands"],
   [MAN EXCEPT !.footfallBand = "unknown"]}

InitData ==
  /\ SelectorIdle
  /\ guess \in EvalStations \cup MalformedStations
  /\ mystery \in EvalStations \cup MalformedStations
  /\ result = NoResult

SpecData == InitData /\ [][NextEval]_vars

----------------------------------------------------------------------------
(* The guesses cookie: setCookieGuesses, getCookieGuesses (unnamed/part_007 3-37) *)

\* tomorrow.setDate(tomorrow.getDate() + 1); tomorrow.setHours(0, 0, 0, 0):
\* the instant of the next midnight of the browser's local time.
LocalMidnightAfter(date) ==
  ((date.time + date.tzOffset) \div TicksPerDay + 1) * TicksPerDay - date.tzOffset

\* JSON.parse(JSON.stringify(entries)), through encodeURIComponent and
\* decodeURIComponent: arrays and objects of strings and numbers come back
\* as equal arrays and objects, rebuilt.
JSONRoundTrip(entries) ==
  [i \in 1..Len(entries) |->
     [station |-> [f \in DOMAIN entries[i].station |-> entries[i].station[f]],
      result |-> [c \in DOMAIN entries[i].result |-> entries[i].result[c]]]]

\* The cookie written at `date`.  It expires one second before the next local
\* midnight: the browser holds it at every tick before `expires` and at none
\* from `expires` on.
setCookieGuesses(guesses_, date) ==
  [value |-> guesses_, expires |-> LocalMidnightAfter(date)]

\* The browser drops a cookie at its expiry; no cookie, no guesses.
getCookieGuesses ==
  IF cookie = NoCookie \/ now >= cookie.expires THEN <<>>
  ELSE JSONRoundTrip(cookie.value)

\* The easy-mode cookie: unnamed/part_007 39-66.
\* tomorrow.setUTCDate(getUTCDate() + 1); tomorrow.setUTCHours(0, 0, 0, 0):
\* the instant of the next UTC midnight.
midnightExpiry(date) == (date.time \div TicksPerDay + 1) * TicksPerDay

\* The cookie written at `date` holds '1' or '0' and expires one second
\* before the next UTC midnight.
setEasyModeCookie(enabled, date) ==
  [value |-> IF enabled THEN "1" ELSE "0", expires |-> midnightExpiry(date)]

\* The first cookie named traindle_easymode decides; none, false.
getEasyModeCookie ==
  IF easyCookie = NoCookie \/ now >= easyCookie.expires THEN FALSE
  ELSE easyCookie.value = "1"

----------------------------------------------------------------------------
(* The game page: app/page.tsx 210-258 *)

\* Object.values(result).every((v) => v === 'correct')
AllCorrect(result_) == \A c \in DOMAIN result_ : result_[c] = "correct"

\* guesses.some((g) => Object.values(g.result).every(...))
won(history) == \E i \in 1..Len(history) : AllCorrect(history[i].result)

gameOver(history) == won(history)

\* The page is loaded or reloaded, with or without ?reset: the mystery is
\* memoised, the mount effect restores or clears the guesses, and the save
\* effect, mounted now being true, writes them back to the cookie.
LoadPage(reset) ==
  LET daily == getDailyStation(NoSeed, ReadsAt(now, tzOffset))
      restored == IF reset THEN <<>> ELSE getCookieGuesses
  IN  /\ "value" \in DOMAIN daily
      /\ mystery' = daily.value
      /\ guesses' = restored
      /\ mounted' = TRUE
      /\ cookie' = setCookieGuesses(restored, NewDate(now, tzOffset))
      /\ stations' = stationsAfter(comparedPairs(NoSeed, ReadsAt(now, tzOffset)))
      /\ closure' = restored
      /\ suggestions' = <<>>
      /\ easyCookie' = IF reset THEN NoCookie ELSE easyCookie
      /\ easyMode' = (~reset /\ getEasyModeCookie)
      /\ easyModeConfirm' = FALSE
      /\ UNCHANGED <<now, rngTable, shown, ret, guess, result, tzOffset>>

\* Variant: no early return when the game is over.
handleGuessUnguarded(station) ==
  LET result_ == evaluateGuess(station, mystery)
      next == Append(guesses, [station |-> station, result |-> result_])
  IN  /\ mounted
      /\ Len(guesses) < MaxHistory
      /\ guess' = station
      /\ result' = [fn |-> "evaluateGuess", value |-> result_]
      /\ guesses' = next
      /\ cookie' = setCookieGuesses(next, NewDate(now, tzOffset))
      /\ closure' = next
      /\ suggestions' = <<>>
      /\ UNCHANGED <<stations, now, rngTable, shown, ret, mystery, mounted, tzOffset>>
      /\ UNCHANGED easyVars

\* The player picks `station`; the save effect follows the state change.
handleGuess(station) ==
  LET result_ == evaluateGuess(station, mystery)
      next == Append(guesses, [station |-> station, result |-> result_])
  IN  /\ mounted
      /\ Len(guesses) < MaxHistory
      /\ IF gameOver(guesses) THEN UNCHANGED vars
         ELSE /\ guess' = station
              /\ result' = [fn |-> "evaluateGuess", value |-> result_]
              /\ guesses' = next
              /\ cookie' = setCookieGuesses(next, NewDate(now, tzOffset))
              /\ closure' = next
              /\ suggestions' = <<>>
              /\ UNCHANGED <<stations, now, rngTable, shown, ret, mystery, mounted, tzOffset>>
              /\ UNCHANGED easyVars

\* A seedrandom that yields the next station of the list on each next day.
DailyRotation == RngTable(WindowDays(0), [d \in WindowDays(0) |-> d % RngRes], 1)

InitPage ==
  /\ stations \in RotationLists
  /\ now = 0
  /\ rngTable = DailyRotation
  /\ shown = <<>>
  /\ ret = NoCall
  /\ EvalIdle
  /\ guesses = <<>>
  /\ mounted = FALSE
  /\ cookie = NoCookie
  /\ tzOffset \in TzOffsets
  /\ closure = <<>>
  /\ suggestions = <<>>
  /\ easyMode = FALSE
  /\ easyModeConfirm = FALSE
  /\ easyCookie = NoCookie

NextPage ==
  \/ Tick
  \/ \E reset \in BOOLEAN : LoadPage(reset)
  \/ \E station \in Range(stations) : handleGuess(station)

SpecPage == InitPage /\ [][NextPage]_vars

----------------------------------------------------------------------------
(* The search box: StationInput (components/GuessRow.tsx 118-213) on the page *)

\* What the player may have typed, as the lower-cased query.
Queries == {"man", "n", "pnz"}

\* s.name.toLowerCase().includes(lower) || s.crs.toLowerCase().includes(lower),
\* for the names and CRS codes of MAN, MCV, NCL and PNZ.
QueryMatches(query, station) ==
  \/ query = "man" /\ station.crs \in {"MAN", "MCV"}
  \/ query = "n" /\ station.crs \in {"MAN", "MCV", "NCL", "PNZ"}
  \/ query = "pnz" /\ station.crs = "PNZ"

\* The rank the suggestion sort gives `station` under `query`: 0 the CRS code
\* is the query, 1 it starts with it, 3 the name contains it, 2 otherwise.
QueryRank(query, station) ==
  CASE query = "man" /\ station.crs = "MAN" -> 0
    [] query = "man" /\ station.crs = "MCV" -> 3
    [] query = "n" /\ station.crs = "NCL" -> 1
    [] query = "n" /\ station.crs \in {"MAN", "MCV", "PNZ"} -> 3
    [] query = "pnz" /\ station.crs = "PNZ" -> 0
    [] OTHER -> 2

RECURSIVE Filter(_, _)
\* Array.prototype.filter: the elements of s that are in `kept`, in order.
Filter(s, kept) ==
  IF s = <<>> THEN <<>>
  ELSE (IF s[1] \in kept THEN <<s[1]>> ELSE <<>>) \o Filter(Tail(s), kept)

RECURSIVE SortByRank(_, _)
\* Array.prototype.sort with the comparator aExact - bExact: stable.
SortByRank(s, query) ==
  IF s = <<>> THEN <<>>
  ELSE LET lowest == CHOOSE r \in {QueryRank(query, s[i]) : i \in 1..Len(s)} :
                       \A i \in 1..Len(s) : r <= QueryRank(query, s[i])
           first == {st \in Range(s) : QueryRank(query, st) = lowest}
       IN  Filter(s, first) \o SortByRank(Filter(s, Range(s) \ first), query)

\* new Set(guesses.map((g) => g.station.crs)): page.tsx 286-289
guessedCrs(history) == {history[i].station.crs : i \in 1..Len(history)}

\* Variant: the suggestions are not filtered by the guessed CRS codes.
suggestionsForAnyStation(query, stations_, guessed) ==
  LET matching == {st \in Range(stations_) : QueryMatches(query, st)}
      filtered == SortByRank(Filter(stations_, matching), query)
  IN  SubSeq(filtered, 1, IF Len(filtered) < 8 THEN Len(filtered) ELSE 8)

\* The effect on [query, stations, guessedCrs]: filter, sort, slice(0, 8).
suggestionsFor(query, stations_, guessed) ==
  LET matching == {st \in Range(stations_) :
                     st.crs \notin guessed /\ QueryMatches(query, st)}
      filtered == SortByRank(Filter(stations_, matching), query)
  IN  SubSeq(filtered, 1, IF Len(filtered) < 8 THEN Len(filtered) ELSE 8)

\* guesses.find((g) => g.result[category] === 'correct'): the station of the
\* first such guess, or Undefined.
FirstCorrect(history, category) ==
  LET hits == {i \in 1..Len(history) : history[i].result[category] = "correct"}
  IN  IF hits = {} THEN Undefined
      ELSE history[CHOOSE i \in hits : \A j \in hits : i <= j].station

\* Variant: the operator lists are compared as listed, unsorted.
easyModeStationsUnsorted(history) ==
  LET correctOp == FirstCorrect(history, "operator")
      correctRegion == FirstCorrect(history, "region")
      correctPlatforms == FirstCorrect(history, "platforms")
      correctFootfall == FirstCorrect(history, "footfallBand")
      correctType == FirstCorrect(history, "stationType")
      Keep(st) ==
        /\ correctOp # Undefined => st.operators = correctOp.operators
        /\ correctRegion # Undefined => st.region = correctRegion.region
        /\ correctPlatforms # Undefined => st.platforms = correctPlatforms.platforms
        /\ correctFootfall # Undefined => st.footfallBand = correctFootfall.footfallBand
        /\ correctType # Undefined => st.stationType = correctType.stationType
  IN  IF ~easyMode THEN stations
      ELSE Filter(stations, {st \in Range(stations) : Keep(st)})

\* The list passed to StationInput (page.tsx 303-328): in easy mode, the
\* stations that agree with a guessed station on every category in which a
\* guess was 'correct'; operators compared as [...ops].sort().join('|').
easyModeStations(history) ==
  LET correctOp == FirstCorrect(history, "operator")
      correctRegion == FirstCorrect(history, "region")
      correctPlatforms == FirstCorrect(history, "platforms")
      correctFootfall == FirstCorrect(history, "footfallBand")
      correctType == FirstCorrect(history, "stationType")
      Keep(st) ==
        /\ correctOp # Undefined =>
             SortOperators(st.operators) = SortOperators(correctOp.operators)
        /\ correctRegion # Undefined => st.region = correctRegion.region
        /\ correctPlatforms # Undefined => st.platforms = correctPlatforms.platforms
        /\ correctFootfall # Undefined => st.footfallBand = correctFootfall.footfallBand
        /\ correctType # Undefined => st.stationType = correctType.stationType
  IN  IF ~easyMode THEN stations
      ELSE Filter(stations, {st \in Range(stations) : Keep(st)})

\* Stations that share every attribute with the mystery, the mystery itself
\* excluded (page.tsx 330-341); operators compared as [...ops].sort().join('|').
alsoCorrect(mystery_) ==
  LET Shares(st) ==
        /\ st.crs # mystery_.crs
        /\ SortOperators(st.operators) = SortOperators(mystery_.operators)
        /\ st.region = mystery_.region
        /\ st.platforms = mystery_.platforms
        /\ st.footfallBand = mystery_.footfallBand
        /\ st.stationType = mystery_.stationType
  IN  Filter(stations, {st \in Range(stations) : Shares(st)})

\* The player types: onChange sets the query and the effect the suggestions.
\* The box is on the page while the game is not over.
setQuery(query) ==
  /\ mounted
  /\ ~gameOver(guesses)
  /\ suggestions' =
       suggestionsFor(query, easyModeStations(guesses), guessedCrs(guesses))
  /\ UNCHANGED <<stations, now, rngTable, shown, ret, guess, mystery, result,
                 guesses, mounted, cookie, tzOffset, closure>>
  /\ UNCHANGED easyVars

\* Escape closes the dropdown.
handleKeyDownEscape ==
  /\ suggestions # <<>>
  /\ suggestions' = <<>>
  /\ UNCHANGED <<stations, now, rngTable, shown, ret, guess, mystery, result,
                 guesses, mounted, cookie, tzOffset, closure>>
  /\ UNCHANGED easyVars

\* A suggestion is picked, with the mouse or with Enter on the highlighted
\* row: onGuess(station), then the query and the dropdown are cleared.
selectStation(station) ==
  /\ station \in Range(suggestions)
  /\ handleGuess(station)

NextInput ==
  \/ \E reset \in BOOLEAN : LoadPage(reset)
  \/ \E query \in Queries : setQuery(query)
  \/ handleKeyDownEscape
  \/ \E station \in Range(stations) : selectStation(station)

SpecInput == InitPage /\ [][NextInput]_vars

----------------------------------------------------------------------------
(* Easy mode: app/page.tsx 214-235, 291-299, 362-375 *)

\* The Easy button: the first click asks "Sure?", the second enables easy
\* mode and writes the cookie.  The button is disabled in easy mode and when
\* the game is over.
handleEasyModeClick ==
  /\ mounted
  /\ ~easyMode
  /\ ~gameOver(guesses)
  /\ IF ~easyModeConfirm
     THEN /\ easyModeConfirm' = TRUE
          /\ UNCHANGED <<easyMode, easyCookie>>
     ELSE /\ easyMode' = TRUE
          /\ easyModeConfirm' = FALSE
          /\ easyCookie' = setEasyModeCookie(TRUE, NewDate(now, tzOffset))
  /\ UNCHANGED <<stations, now, rngTable, shown, ret, guess, mystery, result,
                 guesses, mounted, cookie, tzOffset, closure, suggestions>>

\* onBlur={() => setEasyModeConfirm(false)}
blurEasyButton ==
  /\ mounted
  /\ easyModeConfirm
  /\ easyModeConfirm' = FALSE
  /\ UNCHANGED <<stations, now, rngTable, shown, ret, guess, mystery, result,
                 guesses, mounted, cookie, tzOffset, closure, suggestions,
                 easyMode, easyCookie>>

\* A browser on UTC.
InitEasy == InitPage /\ tzOffset = 0

NextEasy ==
  \/ Tick
  \/ \E reset \in BOOLEAN : LoadPage(reset)
  \/ handleEasyModeClick
  \/ blurEasyButton
  \/ \E query \in Queries : setQuery(query)
  \/ \E station \in Range(stations) : selectStation(station)

SpecEasy == InitEasy /\ [][NextEasy]_vars

----------------------------------------------------------------------------
(* The handler and the render as separate steps: app/page.tsx 238-258 *)

\* handleGuess as called from the dropdown of the last render: `guesses` and
\* gameOver are those the render closed over, and setGuesses(next) replaces
\* the pending state.  The dropdown stays as rendered until the next render.
submitGuess(station) ==
  LET result_ == evaluateGuess(station, mystery)
      next == Append(closure, [station |-> station, result |-> result_])
  IN  /\ mounted
      /\ station \in Range(suggestions)
      /\ IF gameOver(closure) THEN UNCHANGED vars
         ELSE /\ guess' = station
              /\ result' = [fn |-> "evaluateGuess", value |-> result_]
              /\ guesses' = next
              /\ UNCHANGED <<stations, now, rngTable, shown, ret, mystery, mounted,
                             cookie, tzOffset, closure, suggestions>>
              /\ UNCHANGED easyVars

\* React renders the pending state: the handlers close over the new
\* `guesses`, the save effect writes the cookie, and the search box, its
\* query cleared by selectStation, shows no suggestions.
render ==
  /\ mounted
  /\ closure # guesses
  /\ closure' = guesses
  /\ cookie' = setCookieGuesses(guesses, NewDate(now, tzOffset))
  /\ suggestions' = <<>>
  /\ UNCHANGED <<stations, now, rngTable, shown, ret, guess, mystery, result,
                 guesses, mounted, tzOffset>>
  /\ UNCHANGED easyVars

NextRender ==
  \/ \E reset \in BOOLEAN : LoadPage(reset)
  \/ \E query \in Queries : closure = guesses /\ setQuery(query)
  \/ \E station \in Range(stations) : submitGuess(station)
  \/ render

SpecRender == InitPage /\ [][NextRender]_vars

----------------------------------------------------------------------------
(* The six-guess page and its evaluator: app/page.tsx 11-44, lib/evaluateGuess.ts *)

\* The evaluator of the correct / close / wrong and higher / lower vocabulary.
evaluateGuessV1(guess_, mystery_) ==
  [operator |-> evaluateOperator(guess_, mystery_),
   region |-> IF guess_.region = mystery_.region THEN "correct"
              ELSE IF guess_.region \in DOMAIN REGION_ADJACENCY
                      /\ Includes(REGION_ADJACENCY[guess_.region], mystery_.region)
                   THEN "close"
              ELSE "wrong",
   platforms |-> IF guess_.platforms = mystery_.platforms THEN "correct"
                 ELSE IF mystery_.platforms > guess_.platforms THEN "higher"
                 ELSE "lower",
   footfallBand |->
     LET guessIdx == IndexOf(FOOTFALL_ORDER, guess_.footfallBand)
         mystIdx == IndexOf(FOOTFALL_ORDER, mystery_.footfallBand)
     IN  IF guessIdx = mystIdx THEN "correct"
         ELSE IF mystIdx > guessIdx THEN "higher"
         ELSE "lower",
   stationType |-> evaluateStationType(guess_, mystery_)]

\* Variant: the game is lost only when more than MAX_GUESSES guesses are made.
lostAfterSeven(history) == ~won(history) /\ Len(history) > MAX_GUESSES

lost(history) == ~won(history) /\ Len(history) >= MAX_GUESSES

gameOverSix(history) == won(history) \/ lost(history)

handleGuessSix(station) ==
  LET result_ == evaluateGuessV1(station, mystery)
      next == Append(guesses, [station |-> station, result |-> result_])
  IN  IF gameOverSix(guesses) THEN UNCHANGED vars
      ELSE /\ guess' = station
           /\ result' = [fn |-> "evaluateGuess", value |-> result_]
           /\ guesses' = next
           /\ closure' = next
           /\ suggestions' = <<>>
           /\ UNCHANGED <<stations, now, rngTable, shown, ret, mystery,
                          mounted, cookie, tzOffset>>
           /\ UNCHANGED easyVars

\* The page as loaded on some day: the mystery is a station of the list.
InitSix ==
  /\ stations \in RotationLists
  /\ now = 0
  /\ rngTable = <<>>
  /\ shown = <<>>
  /\ ret = NoCall
  /\ guess = MAN
  /\ mystery \in Range(stations)
  /\ result = NoResult
  /\ PageIdle

NextSix == \E station \in Range(stations) : handleGuessSix(station)

SpecSix == InitSix /\ [][NextSix]_vars

----------------------------------------------------------------------------
(* Properties of the daily selector *)

SeedlessIndexCall == ret.fn = "getDailyStationIndex" /\ ret.seed = NoSeed

SeededIndexCall == ret.fn = "getDailyStationIndex" /\ ret.seed # NoSeed

Today == UTCDay(now)

\* The ten candidate stations of today: stations[indexForSeed(trySeed)] per attempt.
Candidates ==
  {StationAt(indexForSeed(TrySeed(DateOfDay(Today), a))) : a \in 0..(MaxAttempts - 1)}

\* The days before today on which a seedless call was answered with an index.
RecentShown == {d \in {Today - 1, Today - 2} : d \in DOMAIN shown}

\* The fallback case of today's call: every candidate collides with a station the
\* call resolved for the last two days, or with a station those days showed.
AllCandidatesCollide ==
  \/ \A c \in Candidates :
       \/ categoriesMatch(c, yesterdayStation(ReadsAt(now, 0)))
       \/ categoriesMatch(c, twoDaysAgoStation(ReadsAt(now, 0)))
  \/ \A c \in Candidates :
       \E d \in RecentShown : categoriesMatch(c, StationAt(shown[d].value))

\* C1: on consecutive UTC days, the station a seedless getDailyStationIndex()
\* returns on day D does not collision-match the station it returned on day D-1
\* or on day D-2, unless all ten candidate seeds of day D collide.
C1_NoRepeatOfRecentDays ==
  (SeedlessIndexCall /\ ~AllCandidatesCollide) =>
    \A d \in RecentShown :
      ~categoriesMatch(StationAt(ret.out.value), StationAt(shown[d].value))

\* C2: every seedless call of getDailyStationIndex() within one UTC day returns
\* the index the first call of that day returned.
C2_SameIndexWithinDay ==
  SeedlessIndexCall => ret.out = shown[Today]

\* A second seedless call, answered in the later half of a day whose first call
\* came earlier.
C2_Witness ==
  SeedlessIndexCall /\ ret.repeat /\ now % TicksPerDay # 0 /\ "value" \in DOMAIN ret.out

\* C3: at the instant a seedless call is answered, a caller in any other
\* timezone gets the same index: the seed depends on the UTC date only.
C3_SameIndexInEveryTimezone ==
  SeedlessIndexCall =>
    \A tz \in TzOffsets : getDailyStationIndex(NoSeed, ReadsAt(now, tz)) = ret.out

\* A seedless call answered at an instant at which some caller's local date is
\* not the UTC date.
C3_Witness ==
  /\ SeedlessIndexCall
  /\ \E tz \in TzOffsets : LocalFields(NewDate(now, tz)) # UTCFields(NewDate(now, tz))

\* C4: getDailyStationIndex(seed) with an explicit seed returns indexForSeed(seed),
\* whatever the date and whatever the recent days showed.
C4_ExplicitSeedSkipsAvoidance ==
  SeededIndexCall => ret.out = Return(indexForSeed(ret.seed[1]))

\* Today's date passed as the seed on a day on which the seedless call avoids a
\* collision and so returns another index.
C4_Witness ==
  /\ SeededIndexCall
  /\ ret.seed = Seed(DateOfDay(Today))
  /\ getDailyStationIndex(NoSeed, ReadsAt(now, 0)) # ret.out

\* C6: for a non-empty station list every index returned, with or without a
\* seed, lies in 0 .. stations.length - 1, and getDailyStation returns a station
\* of the list.
C6_IndexWithinList ==
  (Len(stations) > 0 /\ ret # NoCall) =>
    /\ ret.fn = "getDailyStationIndex" =>
         ret.out \in {Return(i) : i \in 0..(Len(stations) - 1)}
    /\ ret.fn = "getDailyStation" =>
         ret.out \in {Return(st) : st \in Range(stations)}

\* getDailyStation returned the last station of a list of MaxStations stations.
C6_Witness ==
  /\ ret.fn = "getDailyStation"
  /\ Len(stations) = MaxStations
  /\ ret.out = Return(stations[Len(stations)])

\* C7: with an empty station list every call of getDailyStationIndex and
\* getDailyStation fails with an error instead of returning a value.
C7_EmptyListFailsFast ==
  (Len(stations) = 0 /\ ret # NoCall) => "throw" \in DOMAIN ret.out

----------------------------------------------------------------------------
(* Properties of the evaluator *)

Evaluated == result.fn = "evaluateGuess"

Matched == result.fn = "categoriesMatch"

Directions == {"N", "NE", "E", "SE", "S", "SW", "W", "NW"}

CloseVerdicts == {"close-" \o d : d \in Directions}

FarVerdicts == {"far-" \o d : d \in Directions}

\* C5: categoriesMatch(a, b) holds exactly when region, platforms, footfallBand
\* and stationType are equal and the operator lists are equal as sets.
C5_CategoriesMatchIsClassEquality ==
  Matched =>
    (result.value <=>
       /\ guess.region = mystery.region
       /\ guess.platforms = mystery.platforms
       /\ guess.footfallBand = mystery.footfallBand
       /\ guess.stationType = mystery.stationType
       /\ Range(guess.operators) = Range(mystery.operators))

\* Two stations that match although their operators are listed in different orders.
C5_Witness ==
  Matched /\ result.value /\ guess.operators # mystery.operators

\* C8: evaluateGuess(S, S) is 'correct' in all five categories.
C8_SelfGuessAllCorrect ==
  (Evaluated /\ guess = mystery) =>
    result.value = [operator |-> "correct", region |-> "correct", platforms |-> "correct",
                    footfallBand |-> "correct", stationType |-> "correct"]

\* A station with several operators evaluated against itself.
C8_Witness ==
  Evaluated /\ guess = mystery /\ Len(guess.operators) > 1

\* C9: the operator verdict is 'correct' exactly when the operator sets are
\* equal, 'wrong' exactly when they are disjoint, 'partial' otherwise.
C9_OperatorVerdict ==
  Evaluated =>
    LET G == Range(guess.operators)
        M == Range(mystery.operators)
    IN  /\ result.value.operator = "correct" <=> G = M
        /\ result.value.operator = "wrong" <=> G \cap M = {}
        /\ result.value.operator = "partial" <=> (G # M /\ G \cap M # {})

\* A guess whose operators include all of the mystery's and one more: 'partial'.
C9_Witness ==
  /\ Evaluated
  /\ result.value.operator = "partial"
  /\ Range(mystery.operators) \subseteq Range(guess.operators)

\* C10: the region verdict is 'correct' exactly when the regions are equal;
\* otherwise it is a 'close-' verdict when mystery.region is listed in
\* REGION_ADJACENCY[guess.region] and a 'far-' verdict when it is not.
C10_RegionVerdict ==
  Evaluated =>
    /\ result.value.region = "correct" <=> guess.region = mystery.region
    /\ guess.region # mystery.region =>
         IF Includes(REGION_ADJACENCY[guess.region], mystery.region)
         THEN result.value.region \in CloseVerdicts
         ELSE result.value.region \in FarVerdicts

\* A 'far-' verdict for a pair of regions that the table lists as adjacent in
\* the other direction only.
C10_Witness ==
  /\ Evaluated
  /\ result.value.region \in FarVerdicts
  /\ Includes(REGION_ADJACENCY[mystery.region], guess.region)

\* The eight principal directions as <<east, north>> steps.
Axis(d) ==
  CASE d = "N" -> <<0, 1>>   [] d = "NE" -> <<1, 1>>   [] d = "E" -> <<1, 0>>
    [] d = "SE" -> <<1, -1>> [] d = "S" -> <<0, -1>>   [] d = "SW" -> <<-1, -1>>
    [] d = "W" -> <<-1, 0>>  [] d = "NW" -> <<-1, 1>>

\* p / sqrt(a) >= q / sqrt(b), for integers p, q and a, b in {1, 2}
GeqScaled(p, a, q, b) ==
  IF p >= 0 /\ q >= 0 THEN p * p * b >= q * q * a
  ELSE IF p >= 0 THEN TRUE
  ELSE IF q >= 0 THEN FALSE
  ELSE p * p * b <= q * q * a

\* How far the step (dlon, dlat) goes along direction d, times its length.
Along(d, dlon, dlat) == Axis(d)[1] * dlon + Axis(d)[2] * dlat

SquaredLen(d) == Axis(d)[1] * Axis(d)[1] + Axis(d)[2] * Axis(d)[2]

\* The principal direction that makes the smallest angle with the bearing from
\* region `from` to region `to`: the centre of the 45-degree bin the bearing is in.
NearestDirection(from, to) ==
  LET dlat == REGION_CENTROIDS[to][1] - REGION_CENTROIDS[from][1]
      dlon == REGION_CENTROIDS[to][2] - REGION_CENTROIDS[from][2]
  IN  CHOOSE d \in Directions :
        \A e \in Directions :
          GeqScaled(Along(d, dlon, dlat), SquaredLen(d), Along(e, dlon, dlat), SquaredLen(e))

DirectionVerdicts(d) == {"close-" \o d, "far-" \o d}

RegionPair(from, to) == guess.region = from /\ mystery.region = to

\* C11: for guess and mystery in different regions the direction part of the
\* region verdict is the compass octant of the bearing from the guess region's
\* centroid to the mystery region's centroid; North West to North East gives NE,
\* North West to Yorkshire E, Scotland to South West S, Wales to North West NE
\* and North East to North West SW.
C11_DirectionIsBearingOctant ==
  (Evaluated /\ guess.region # mystery.region) =>
    /\ result.value.region \in DirectionVerdicts(NearestDirection(guess.region, mystery.region))
    /\ RegionPair("North West", "North East") => result.value.region = "close-NE"
    /\ RegionPair("North West", "Yorkshire") => result.value.region = "close-E"
    /\ RegionPair("Scotland", "South West") => result.value.region = "far-S"
    /\ RegionPair("Wales", "North West") => result.value.region = "close-NE"
    /\ RegionPair("North East", "North West") => result.value.region = "close-SW"

\* A verdict for a bearing that lies between 22.5 and 45 degrees off north:
\* nearer to the diagonal than to the axis.
C11_Witness ==
  /\ Evaluated
  /\ RegionPair("Wales", "North West")
  /\ result.value.region = "close-NE"

\* The verdict the spec gives for a signed distance d with close range 1 .. reach.
BandedVerdict(d, reach) ==
  IF d = 0 THEN "correct"
  ELSE IF d >= 1 /\ d <= reach THEN "close-higher"
  ELSE IF d <= -1 /\ d >= -reach THEN "close-lower"
  ELSE IF d > reach THEN "far-higher"
  ELSE "far-lower"

\* Position of a band in the fixed seven-band order, 1 for the lowest.
Ordinal(band) == CHOOSE i \in 1..Len(FOOTFALL_ORDER) : FOOTFALL_ORDER[i] = band

\* C12: with d = mystery.platforms - guess.platforms the platforms verdict is
\* 'correct' for d = 0, 'close-higher' for 1 <= d <= 2, 'close-lower' for
\* -2 <= d <= -1, 'far-higher' for d > 2 and 'far-lower' for d < -2.
C12_PlatformsVerdict ==
  Evaluated =>
    result.value.platforms = BandedVerdict(mystery.platforms - guess.platforms, 2)

\* A guess three platforms above the mystery: the first distance that is 'far'.
C12_Witness ==
  /\ Evaluated
  /\ mystery.platforms - guess.platforms = -3
  /\ result.value.platforms = "far-lower"

\* C13: with d = ordinal(mystery.footfallBand) - ordinal(guess.footfallBand) the
\* footfallBand verdict is 'correct' for d = 0, 'close-higher' for d = 1,
\* 'close-lower' for d = -1, 'far-higher' for d > 1 and 'far-lower' for d < -1.
C13_FootfallVerdict ==
  Evaluated =>
    result.value.footfallBand =
      BandedVerdict(Ordinal(mystery.footfallBand) - Ordinal(guess.footfallBand), 1)

\* A mystery two bands above the guess: 'far-higher'.
C13_Witness ==
  /\ Evaluated
  /\ Ordinal(mystery.footfallBand) - Ordinal(guess.footfallBand) = 2
  /\ result.value.footfallBand = "far-higher"

\* higher <-> lower, close and far kept
Flip(v) ==
  CASE v = "correct" -> "correct"
    [] v = "close-higher" -> "close-lower"
    [] v = "close-lower" -> "close-higher"
    [] v = "far-higher" -> "far-lower"
    [] v = "far-lower" -> "far-higher"

\* C14: for platforms and for footfallBand, evaluateGuess(mystery, guess) gives
\* the verdict of evaluateGuess(guess, mystery) with higher and lower exchanged
\* and close/far kept; 'correct' stays 'correct'.
C14_SwapFlipsHigherLower ==
  Evaluated =>
    /\ evaluateGuess(mystery, guess).platforms = Flip(result.value.platforms)
    /\ evaluateGuess(mystery, guess).footfallBand = Flip(result.value.footfallBand)

\* A pair one footfall band apart, evaluated with the higher band as the guess.
C14_Witness ==
  /\ Evaluated
  /\ result.value.footfallBand = "close-lower"
  /\ evaluateGuess(mystery, guess).footfallBand = "close-higher"

\* The record has a region without an adjacency or centroid entry, or a band
\* that FOOTFALL_ORDER does not list.
Malformed(st) ==
  \/ st.region \notin DOMAIN REGION_ADJACENCY
  \/ st.region \notin DOMAIN REGION_CENTROIDS
  \/ ~Includes(FOOTFALL_ORDER, st.footfallBand)

\* C15: when the guess or the mystery has a region with no entry in the
\* adjacency or centroid table, or a footfall band that is not in the ordered
\* list, evaluateGuess signals an error instead of returning a verdict.
C15_MalformedDataFailsLoudly ==
  (Evaluated /\ (Malformed(guess) \/ Malformed(mystery))) =>
    "throw" \in DOMAIN result.value

\* C16: no call of getDailyStationIndex, getDailyStation, evaluateGuess or
\* categoriesMatch changes the station list, a station's operators array or
\* the two stations it is given.
C16_InputsUnchanged ==
  [][stations' = stations /\ guess' = guess /\ mystery' = mystery]_vars

\* A seedless call has been answered that compared two stations of one class,
\* one of them with its operators listed out of sorted order: the sort ran.
C16_Witness ==
  /\ SeedlessIndexCall
  /\ \E pr \in comparedPairs(NoSeed, ReadsAt(now, 0)) :
       /\ sortReached(pr[1], pr[2])
       /\ pr[1].operators # SortOperators(pr[1].operators)

----------------------------------------------------------------------------
(* Properties of the game page *)

\* What getDailyStation() returns at this instant.
TodaysMystery == getDailyStation(NoSeed, ReadsAt(now, 0)).value

\* C17: after any sequence of page loads, guesses and UTC day changes, every
\* entry of the guess history, restored ones included, carries the verdicts of
\* its station against the mystery of the current UTC day.
C17_HistoryIsOfToday ==
  mounted =>
    \A i \in 1..Len(guesses) :
      guesses[i].result = evaluateGuess(guesses[i].station, TodaysMystery)

\* C18: the guesses cookie expires at the next UTC midnight, the instant at
\* which the date seed changes, whatever the browser's timezone: as long as
\* the browser holds it, its expiry is the end of the current UTC day.
C18_CookieExpiresAtUTCMidnight ==
  (cookie # NoCookie /\ now < cookie.expires) =>
    cookie.expires = (UTCDay(now) + 1) * TicksPerDay

WinIsLast ==
  \A i \in 1..Len(guesses) : AllCorrect(guesses[i].result) => i = Len(guesses)

\* C19: once the history holds an all-correct entry, handleGuess leaves the
\* history unchanged; an all-correct entry, if there is one, is the last one.
C19_WinEndsTheGame ==
  [][/\ ((\E station \in Range(stations) : handleGuess(station)) /\ won(guesses))
          => guesses' = guesses
     /\ WinIsLast']_vars

\* A game won at the second guess, with the page still taking input events.
C19_Witness ==
  /\ mounted
  /\ Len(guesses) = 2
  /\ Len(guesses) < MaxHistory
  /\ AllCorrect(guesses[2].result)

\* C20: on the six-guess page the history never holds more than 6 entries:
\* handleGuess ignores a guess once the game is won or 6 guesses have been
\* made, and the game is lost exactly when 6 guesses have been made and none
\* of them is all-correct.
C20_SixGuessCap ==
  [][/\ ((\E station \in Range(stations) : handleGuessSix(station))
           /\ (won(guesses) \/ Len(guesses) = 6))
          => guesses' = guesses
     /\ Len(guesses') <= 6
     /\ lost(guesses') <=>
          (Len(guesses') = 6 /\ \A i \in 1..Len(guesses') : ~AllCorrect(guesses'[i].result))]_vars

\* Six guesses made, the last of them as wrong as the rest: the game is lost.
C20_Witness ==
  /\ Len(guesses) = 6
  /\ \A i \in 1..Len(guesses) : ~AllCorrect(guesses[i].result)
  /\ lost(guesses)

----------------------------------------------------------------------------
(* Properties of the search box, easy mode and the guess history *)

\* C21: a station already in today's guess history is never offered again by
\* the search box, so no CRS code occurs twice in the history.
C21_NoStationGuessedTwice ==
  /\ \A i \in 1..Len(suggestions) : suggestions[i].crs \notin guessedCrs(guesses)
  /\ \A i, j \in 1..Len(guesses) :
       guesses[i].station.crs = guesses[j].station.crs => i = j

\* The box offers a station while another station that matches the same
\* query is in the history.
C21_Witness ==
  /\ suggestions # <<>>
  /\ \E query \in Queries :
       /\ suggestions = suggestionsFor(query, stations, guessedCrs(guesses))
       /\ \E i \in 1..Len(guesses) : QueryMatches(query, guesses[i].station)

\* C22: once easy mode is enabled it stays enabled until the easy-mode cookie
\* expires: no click, blur, reload or URL parameter turns it off before.
C22_EasyModeStaysOn ==
  [][(easyMode /\ easyCookie # NoCookie /\ now' < easyCookie.expires) => easyMode']_vars

----------------------------------------------------------------------------
(* Properties of the selector's resolution of the recent days *)

\* C23: the station a seedless call on day D resolves as yesterday's is the
\* station the call on day D-1 returned, and the one it resolves for two days
\* ago is the station the call on day D-2 returned.
C23_ResolvedIsWhatWasShown ==
  SeedlessIndexCall =>
    /\ (Today - 1) \in DOMAIN shown =>
         yesterdayStation(ReadsAt(now, 0)) = StationAt(shown[Today - 1].value)
    /\ (Today - 2) \in DOMAIN shown =>
         twoDaysAgoStation(ReadsAt(now, 0)) = StationAt(shown[Today - 2].value)

\* The candidate of today's attempt number a.
Candidate(a) == StationAt(indexForSeed(TrySeed(DateOfDay(Today), a)))

\* The candidate collides with the station the call resolved for yesterday or
\* for two days ago.
CollidesWithResolved(st) ==
  \/ categoriesMatch(st, yesterdayStation(ReadsAt(now, 0)))
  \/ categoriesMatch(st, twoDaysAgoStation(ReadsAt(now, 0)))

\* The attempts whose candidate collides with neither resolved station.
FreeAttempts ==
  LET twoDaysAgo == twoDaysAgoStation(ReadsAt(now, 0))
      yesterday == resolveStationForDate(DateOfDay(Today - 1), twoDaysAgo)
  IN  {a \in 0..(MaxAttempts - 1) :
         /\ ~categoriesMatch(Candidate(a), yesterday)
         /\ ~categoriesMatch(Candidate(a), twoDaysAgo)}

\* C24: a seedless call tries date, date-1, .., date-9 in that order and
\* returns the index of the first seed whose station collision-matches neither
\* the resolved station of yesterday nor that of two days ago.
C24_FirstFreeCandidate ==
  SeedlessIndexCall =>
    LET free == FreeAttempts
    IN  free # {} =>
          \E a \in free :
            /\ \A b \in free : a <= b
            /\ ret.out = Return(indexForSeed(TrySeed(DateOfDay(Today), a)))

\* The plain seed collides with the resolved station of two days ago only,
\* and a later attempt is returned.
C24_Witness ==
  /\ SeedlessIndexCall
  /\ categoriesMatch(Candidate(0), twoDaysAgoStation(ReadsAt(now, 0)))
  /\ ~categoriesMatch(Candidate(0), yesterdayStation(ReadsAt(now, 0)))
  /\ FreeAttempts # {}
  /\ ret.out # Return(indexForSeed(DateOfDay(Today)))

\* C25: when all ten candidates collide with a resolved recent-day station the
\* call returns the index of the plain date seed, and only then does today's
\* station collision-match a resolved recent-day station.
C25_FallbackToPlainSeed ==
  SeedlessIndexCall =>
    LET free == FreeAttempts
    IN  /\ free = {} => ret.out = Return(indexForSeed(DateOfDay(Today)))
        /\ CollidesWithResolved(StationAt(ret.out.value)) => free = {}

\* Every candidate collides, the plain seed's among them, and the call
\* returned a colliding station.
C25_Witness ==
  /\ SeedlessIndexCall
  /\ FreeAttempts = {}
  /\ CollidesWithResolved(StationAt(ret.out.value))
  /\ \E a \in 1..(MaxAttempts - 1) : Candidate(a) # Candidate(0)

\* C26: one seedless call reads the date once: its today seed and its seeds
\* for 3, 2 and 1 days before are those of one and the same UTC date, also
\* when UTC midnight passes while the call runs.
C26_OneDatePerCall ==
  SeedlessIndexCall =>
    \E d \in 0..MaxDay :
      ret.seeds = <<DateOfDay(d), DateOfDay(d - 3), DateOfDay(d - 2), DateOfDay(d - 1)>>

----------------------------------------------------------------------------
(* Properties that relate the evaluator, the selector's classes and the page *)

\* C28: evaluateGuess(g, m) is all-correct exactly when categoriesMatch(g, m)
\* holds; among the listed stations the winners for mystery m are m itself
\* and the stations of alsoCorrect(m), and no others.
C28_WinnersAreTheClass ==
  Evaluated =>
    /\ AllCorrect(result.value) <=> categoriesMatch(guess, mystery)
    /\ (guess \in Range(stations) /\ mystery \in Range(stations)) =>
         (AllCorrect(result.value) <=>
            (guess = mystery \/ guess \in Range(alsoCorrect(mystery))))

\* A listed station other than the mystery wins: it lists the mystery's
\* operators in another order.
C28_Witness ==
  /\ Evaluated
  /\ AllCorrect(result.value)
  /\ guess \in Range(alsoCorrect(mystery))
  /\ guess.operators # mystery.operators

\* Every entry of the history holds the verdicts of its station against the
\* mystery the page shows now.
EvaluatedAgainstMystery ==
  \A i \in 1..Len(guesses) :
    guesses[i].result = evaluateGuess(guesses[i].station, mystery)

\* C29: in easy mode, after any guesses evaluated against the current mystery,
\* the mystery is still in easyModeStations, the list the search box draws on.
C29_MysteryStaysInEasyList ==
  (mounted /\ easyMode /\ EvaluatedAgainstMystery) =>
    mystery \in Range(easyModeStations(guesses))

\* Easy mode has narrowed the list: a guess that was not the answer was
\* correct in some category and a listed station is filtered out.
C29_Witness ==
  /\ mounted
  /\ easyMode
  /\ EvaluatedAgainstMystery
  /\ ~won(guesses)
  /\ Len(easyModeStations(guesses)) < Len(stations)
  /\ mystery \in Range(easyModeStations(guesses))

\* The region verdict of the same two stations with guess and mystery swapped.
SwappedRegionVerdict == evaluateGuess(mystery, guess).region

\* C30 as stated: for guess and mystery in different regions the verdict is a
\* 'close-' verdict exactly when the verdict with the two swapped is.
C30_CloseIsSymmetric ==
  (Evaluated /\ guess.region # mystery.region) =>
    (result.value.region \in CloseVerdicts <=> SwappedRegionVerdict \in CloseVerdicts)

\* C30: for guess and mystery in different regions the close/far part of the
\* region verdict is the same in both directions, except for London and West
\* Midlands: a guess in London with the mystery in West Midlands is 'close-',
\* a guess in West Midlands with the mystery in London is 'far-'.
C30_CloseIsSymmetricButOnePair ==
  (Evaluated /\ guess.region # mystery.region) =>
    /\ RegionPair("London", "West Midlands") => result.value.region \in CloseVerdicts
    /\ RegionPair("West Midlands", "London") => result.value.region \in FarVerdicts
    /\ {guess.region, mystery.region} # {"London", "West Midlands"} =>
         (result.value.region \in CloseVerdicts <=> SwappedRegionVerdict \in CloseVerdicts)

\* A guess in West Midlands for a mystery in London has been evaluated.
C30_Witness ==
  /\ Evaluated
  /\ RegionPair("West Midlands", "London")
  /\ SwappedRegionVerdict \in CloseVerdicts

====
